---- MODULE Spec2Model ----
(***************************************************************************)
(* Model of osmis.py: the word search solver.  A SearchField owns a padded  *)
(* rectangular grid of characters and a lazily built cache of eight line    *)
(* families (one per Direction); find_words scans the families for words,   *)
(* solve wraps the result in a Solution whose mask and remaining text are   *)
(* derived from the found positions.                                        *)
(*                                                                          *)
(* Python lists and strings are sequences; Python indices are 0-based and   *)
(* are kept 0-based here (At converts).  Optional[T] is a sequence of       *)
(* length at most one: None is <<>>, a value v is <<v>>.                    *)
(***************************************************************************)
EXTENDS Integers, Sequences, FiniteSets, TLC

VARIABLES
    lines,             \* SearchField.lines: the padded rows
    width,             \* SearchField.width
    search_registers,  \* SearchField._search_registers: None or the eight families
    call,              \* the call a caller made last, with its arguments
    result,            \* what that call returned or raised
    solution           \* Solution.word_positions of the Solution last made, or None

vars == <<lines, width, search_registers, call, result, solution>>

(* ------------------------------ bounds --------------------------------- *)

\* The grids of a specification have at most MaxArea, MaxCells or MaxFewCells
\* cells: the richer the calls it enumerates, the smaller its grids.
MaxArea == 6
MaxCells == 4
MaxFewCells == 3
\* SpecFind: a word has at most MaxWordLen letters and an allowed_directions
\* list at most MaxDirs entries.
MaxWordLen == 2
MaxDirs == 1

Letters == {"A", "B"}
Alphabet == {"A", "B", "C"}
\* The padding character of SearchField.__init__.
NUL == "NUL"

(* ------------------------- Python primitives --------------------------- *)

None == <<>>
Some(v) == <<v>>
IsNone(o) == Len(o) = 0
Value(o) == o[1]

IndexError == "IndexError"

Min(a, b) == IF a < b THEN a ELSE b
Max(a, b) == IF a > b THEN a ELSE b

\* seq[i] of Python: 0-based, a negative index counts from the end.
At(seq, i) ==
    IF 0 <= i /\ i < Len(seq) THEN seq[i + 1]
    ELSE IF -Len(seq) <= i /\ i < 0 THEN seq[Len(seq) + i + 1]
    ELSE IndexError

InRange(seq, i) == -Len(seq) <= i /\ i < Len(seq)

\* rows[i][j] of Python; an IndexError of rows[i] is the error of the whole.
Item2(rows, i, j) == IF InRange(rows, i) THEN At(At(rows, i), j) ELSE IndexError

\* line[::-1]
Reversed(line) == [k \in 1..Len(line) |-> line[Len(line) + 1 - k]]

\* A slip: the highest index (str.rfind) instead of the lowest.
FindLast(line, word) ==
    LET hits == {i \in 0..(Len(line) - Len(word)) :
                    SubSeq(line, i + 1, i + Len(word)) = word}
    IN IF hits = {} THEN -1 ELSE CHOOSE i \in hits : \A j \in hits : i >= j

\* str.find: the lowest index at which word occurs in line, or -1.
Find(line, word) ==
    LET hits == {i \in 0..(Len(line) - Len(word)) :
                    SubSeq(line, i + 1, i + Len(word)) = word}
    IN IF hits = {} THEN -1 ELSE CHOOSE i \in hits : \A j \in hits : i <= j

(* ----------------------------- Direction ------------------------------- *)

\* enum.auto() numbers the members 1..8 in this order.
Direction == <<"RIGHT", "BOTTOM", "LEFT", "TOP",
               "BOTTOMRIGHT", "BOTTOMLEFT", "TOPRIGHT", "TOPLEFT">>

Directions == {Direction[k] : k \in 1..Len(Direction)}

DIRECTION_DELTAS ==
    [d \in Directions |->
        CASE d = "RIGHT" -> <<0, 1>>
          [] d = "LEFT" -> <<0, -1>>
          [] d = "BOTTOM" -> <<1, 0>>
          [] d = "TOP" -> <<-1, 0>>
          [] d = "BOTTOMRIGHT" -> <<1, 1>>
          [] d = "BOTTOMLEFT" -> <<1, -1>>
          [] d = "TOPRIGHT" -> <<-1, 1>>
          [] d = "TOPLEFT" -> <<-1, -1>>]

\* A slip: the lines come back as they are.
LinesNotReversed(ls) == ls

reverse_lines(ls) == [k \in 1..Len(ls) |-> Reversed(ls[k])]

(* ---------------------------- WordPosition ----------------------------- *)

WordPosition(row, column, direction) ==
    [row |-> row, column |-> column, direction |-> direction]

\* A slip: range(length - 1), the last cell is left out.
CellsWithoutLast(position, length) ==
    LET row_delta == DIRECTION_DELTAS[position.direction][1]
        column_delta == DIRECTION_DELTAS[position.direction][2]
    IN [k \in 1..(length - 1) |->
           <<position.row + (k - 1) * row_delta,
             position.column + (k - 1) * column_delta>>]

\* WordPosition.cells: the list of the length cells, in order.
cells(position, length) ==
    LET row_delta == DIRECTION_DELTAS[position.direction][1]
        column_delta == DIRECTION_DELTAS[position.direction][2]
    IN [k \in 1..length |->
           <<position.row + (k - 1) * row_delta,
             position.column + (k - 1) * column_delta>>]

(* ----------------------------- SearchField ----------------------------- *)

\* SearchField.__init__: the fields of a grid built from raw rows.
SearchField(rows) ==
    LET w == CHOOSE m \in {Len(rows[k]) : k \in 1..Len(rows)} :
                 \A k \in 1..Len(rows) : Len(rows[k]) <= m
    IN [width |-> w,
        lines |-> [k \in 1..Len(rows) |->
                      rows[k] \o [p \in 1..(w - Len(rows[k])) |-> NUL]],
        search_registers |-> None]

height(self) == Len(self.lines)

_bottomright_diagonal_start(self, diag_i) ==
    LET d == self.width - 1 - diag_i
        br_i0 == Max(-d, 0)
        br_j0 == br_i0 + d
    IN <<br_i0, br_j0>>

\* A slip: the start row is not taken off the diagonal's index.
DiagonalLengthFromIndex(self, diag_i) ==
    LET br_i0 == _bottomright_diagonal_start(self, diag_i)[1]
    IN Min(height(self) - br_i0, diag_i + 1)

_diagonal_length(self, diag_i) ==
    LET br_i0 == _bottomright_diagonal_start(self, diag_i)[1]
    IN Min(height(self) - br_i0, diag_i + 1 - br_i0)

\* A slip: the start row is capped by the width instead of the height.
TopRightStartCappedByWidth(self, diag_i) ==
    LET tr_i0 == Min(diag_i, self.width - 1)
        tr_j0 == diag_i - tr_i0
    IN <<tr_i0, tr_j0>>

_topright_diagonal_start(self, diag_i) ==
    LET tr_i0 == Min(diag_i, height(self) - 1)
        tr_j0 == diag_i - tr_i0
    IN <<tr_i0, tr_j0>>

\* A slip: the families are scanned in the order of the Direction enum.
KeysInEnumOrder == Direction

\* The order in which the registers dict is filled, hence of registers.keys().
RegisterKeys == <<"RIGHT", "LEFT", "BOTTOM", "TOP",
                  "BOTTOMRIGHT", "TOPLEFT", "TOPRIGHT", "BOTTOMLEFT">>

\* The dict built by _get_search_registers when the cache is empty.
BuildSearchRegisters(self) ==
    LET transposed_lines ==
            [j \in 1..self.width |->
                [k \in 1..height(self) |->
                    IF j - 1 < Len(self.lines[k]) THEN At(self.lines[k], j - 1)
                    ELSE NUL]]
        n_diagonals == self.width + height(self) - 1
        bottomright_lines ==
            [n \in 1..n_diagonals |->
                LET br == _bottomright_diagonal_start(self, n - 1)
                IN [i \in 1.._diagonal_length(self, n - 1) |->
                       Item2(self.lines, br[1] + (i - 1), br[2] + (i - 1))]]
        topright_lines ==
            [n \in 1..n_diagonals |->
                LET tr == _topright_diagonal_start(self, n - 1)
                IN [i \in 1.._diagonal_length(self, n - 1) |->
                       Item2(self.lines, tr[1] - (i - 1), tr[2] + (i - 1))]]
    IN [d \in Directions |->
           CASE d = "RIGHT" -> self.lines
             [] d = "LEFT" -> reverse_lines(self.lines)
             [] d = "BOTTOM" -> transposed_lines
             [] d = "TOP" -> reverse_lines(transposed_lines)
             [] d = "BOTTOMRIGHT" -> bottomright_lines
             [] d = "TOPLEFT" -> reverse_lines(bottomright_lines)
             [] d = "TOPRIGHT" -> topright_lines
             [] d = "BOTTOMLEFT" -> reverse_lines(topright_lines)]

\* _get_search_registers: the cache after the call (the call returns its value).
_get_search_registers(self) ==
    IF IsNone(self.search_registers) THEN Some(BuildSearchRegisters(self))
    ELSE self.search_registers

\* A slip: BOTTOMLEFT is mapped back as if its lines were not reversed.
RegularizeBottomLeftUnreversed(self, direction, line_i, find_i) ==
    CASE direction = "RIGHT" -> <<line_i, find_i>>
      [] direction = "LEFT" -> <<line_i, self.width - find_i - 1>>
      [] direction = "BOTTOM" -> <<find_i, line_i>>
      [] direction = "TOP" -> <<height(self) - find_i - 1, line_i>>
      [] direction = "BOTTOMRIGHT" ->
            LET s == _bottomright_diagonal_start(self, line_i)
            IN <<s[1] + find_i, s[2] + find_i>>
      [] direction = "TOPLEFT" ->
            LET s == _bottomright_diagonal_start(self, line_i)
                diag_length == _diagonal_length(self, line_i)
            IN <<s[1] + diag_length - find_i - 1, s[2] + diag_length - find_i - 1>>
      [] direction = "TOPRIGHT" ->
            LET s == _topright_diagonal_start(self, line_i)
            IN <<s[1] - find_i, s[2] + find_i>>
      [] direction = "BOTTOMLEFT" ->
            LET s == _topright_diagonal_start(self, line_i)
            IN <<s[1] - find_i, s[2] + find_i>>
      [] OTHER -> <<"ValueError", "invalid direction">>

_regularize_register_position(self, direction, line_i, find_i) ==
    CASE direction = "RIGHT" -> <<line_i, find_i>>
      [] direction = "LEFT" -> <<line_i, self.width - find_i - 1>>
      [] direction = "BOTTOM" -> <<find_i, line_i>>
      [] direction = "TOP" -> <<height(self) - find_i - 1, line_i>>
      [] direction = "BOTTOMRIGHT" ->
            LET s == _bottomright_diagonal_start(self, line_i)
            IN <<s[1] + find_i, s[2] + find_i>>
      [] direction = "TOPLEFT" ->
            LET s == _bottomright_diagonal_start(self, line_i)
                diag_length == _diagonal_length(self, line_i)
            IN <<s[1] + diag_length - find_i - 1, s[2] + diag_length - find_i - 1>>
      [] direction = "TOPRIGHT" ->
            LET s == _topright_diagonal_start(self, line_i)
            IN <<s[1] - find_i, s[2] + find_i>>
      [] direction = "BOTTOMLEFT" ->
            LET s == _topright_diagonal_start(self, line_i)
                diag_length == _diagonal_length(self, line_i)
            IN <<s[1] - diag_length + find_i + 1, s[2] + diag_length - find_i - 1>>
      [] OTHER -> <<"ValueError", "invalid direction">>

(* ------------------------------ find_words ----------------------------- *)

NoFinds == [w \in {} |-> None]

\* The body of "for line_i, line in enumerate(dir_register)" from line_i on:
\* every remaining word the line contains is recorded at its leftmost offset
\* and leaves the pool once the line is done.
RECURSIVE ScanLines(_, _, _, _, _, _)
ScanLines(self, direction, dir_register, line_i, finds, remaining_words) ==
    IF line_i >= Len(dir_register)
    THEN [finds |-> finds, remaining_words |-> remaining_words]
    ELSE LET line == At(dir_register, line_i)
             dir_found == {word \in remaining_words : Find(line, word) # -1}
             recorded ==
                 [word \in (DOMAIN finds) \cup dir_found |->
                     IF word \in dir_found
                     THEN LET p == _regularize_register_position(
                                       self, direction, line_i, Find(line, word))
                          IN Some(WordPosition(p[1], p[2], direction))
                     ELSE finds[word]]
         IN ScanLines(self, direction, dir_register, line_i + 1,
                      recorded, remaining_words \ dir_found)

\* The body of "for direction in allowed_directions" from list index k on.
RECURSIVE ScanDirections(_, _, _, _, _, _)
ScanDirections(self, registers, allowed_directions, k, finds, remaining_words) ==
    IF k > Len(allowed_directions)
    THEN [finds |-> finds, remaining_words |-> remaining_words]
    ELSE LET direction == allowed_directions[k]
             scanned == ScanLines(self, direction, registers[direction], 0,
                                  finds, remaining_words)
         IN ScanDirections(self, registers, allowed_directions, k + 1,
                           scanned.finds, scanned.remaining_words)

Return(value) ==
    [kind |-> "return", exception |-> "", message |-> "", args |-> {},
     value |-> value]

Raise(exception, message, args) ==
    [kind |-> "raise", exception |-> exception, message |-> message,
     args |-> args, value |-> NoFinds]

\* A slip: "keep" returns the found words only, as "ignore" does.
ApplyNotFoundKeepDrops(finds, remaining_words, not_found) ==
    IF remaining_words # {}
    THEN CASE not_found = "error" ->
                Raise("ValueError", "could not find words", remaining_words)
           [] not_found = "keep" -> Return(finds)
           [] not_found # "ignore" /\ not_found # "error" /\ not_found # "keep" ->
                Raise("ValueError", "invalid not_found argument value", {not_found})
           [] OTHER -> Return(finds)
    ELSE Return(finds)

\* What the not_found policy makes of the scan's outcome.
ApplyNotFound(finds, remaining_words, not_found) ==
    IF remaining_words # {}
    THEN CASE not_found = "error" ->
                Raise("ValueError", "could not find words", remaining_words)
           [] not_found = "keep" ->
                Return([w \in (DOMAIN finds) \cup remaining_words |->
                           IF w \in remaining_words THEN None ELSE finds[w]])
           [] not_found # "ignore" /\ not_found # "error" /\ not_found # "keep" ->
                Raise("ValueError", "invalid not_found argument value", {not_found})
           [] OTHER -> Return(finds)
    ELSE Return(finds)

\* find_words: the outcome of the call (a returned mapping or a raised error)
\* and the cache the call leaves behind.
find_words(self, words, not_found, multiple_finds, allowed_directions) ==
    IF multiple_finds # "first"
    THEN [outcome |-> Raise("NotImplementedError",
                            "multiple find detection/reconciliation not implemented", {}),
          search_registers |-> self.search_registers]
    ELSE LET cache == _get_search_registers(self)
             registers == Value(cache)
             directions == IF IsNone(allowed_directions) THEN RegisterKeys
                           ELSE Value(allowed_directions)
             scanned == ScanDirections(self, registers, directions, 1, NoFinds,
                                       {words[k] : k \in 1..Len(words)})
         IN [outcome |-> ApplyNotFound(scanned.finds, scanned.remaining_words, not_found),
             search_registers |-> cache]

(* ------------------------------- Solution ------------------------------ *)

\* seq[i] = v of Python on a list: the list after the assignment.
SetItem(seq, i, v) ==
    IF 0 <= i THEN [seq EXCEPT ![i + 1] = v]
    ELSE [seq EXCEPT ![Len(seq) + i + 1] = v]

\* "for row, col in position.cells(len(word)): mask[row][col] = True", from
\* list index k on; acc is the mask so far, or the IndexError already raised.
RECURSIVE MarkCells(_, _, _)
MarkCells(acc, cs, k) ==
    IF k > Len(cs) \/ acc.kind = "raise" THEN acc
    ELSE LET row == cs[k][1]
             col == cs[k][2]
             mask == acc.value
         IN IF InRange(mask, row) /\ InRange(At(mask, row), col)
            THEN MarkCells(Return(SetItem(mask, row, SetItem(At(mask, row), col, TRUE))),
                           cs, k + 1)
            ELSE Raise("IndexError", "list assignment index out of range", {})

\* "for word, position in self.word_positions.items()" over the words left.
RECURSIVE MarkWords(_, _, _)
MarkWords(acc, word_positions, left) ==
    IF left = {} THEN acc
    ELSE LET word == CHOOSE w \in left : TRUE
             position == word_positions[word]
             marked == IF IsNone(position) THEN acc
                       ELSE MarkCells(acc, cells(Value(position), Len(word)), 1)
         IN MarkWords(marked, word_positions, left \ {word})

\* Solution.array_mask
array_mask(self, word_positions) ==
    MarkWords(Return([j \in 1..height(self) |-> [i \in 1..self.width |-> FALSE]]),
              word_positions, DOMAIN word_positions)

\* zip(a, b): the pairs up to the shorter length.
Zip(a, b) == [k \in 1..Min(Len(a), Len(b)) |-> <<a[k], b[k]>>]

RECURSIVE Concat(_)
Concat(seqs) == IF Len(seqs) = 0 THEN <<>> ELSE Head(seqs) \o Concat(Tail(seqs))

RECURSIVE Filter(_, _)
Filter(pairs, keepMasked) ==
    IF Len(pairs) = 0 THEN <<>>
    ELSE (IF Head(pairs)[2] = keepMasked THEN <<Head(pairs)[1]>> ELSE <<>>)
             \o Filter(Tail(pairs), keepMasked)

\* Solution.remaining_text
remaining_text(self, word_positions) ==
    LET m == array_mask(self, word_positions)
    IN IF m.kind = "raise" THEN m
       ELSE LET rows == Zip(self.lines, m.value)
            IN Return(Concat([k \in 1..Len(rows) |->
                                 Filter(Zip(rows[k][1], rows[k][2]), FALSE)]))

NEWLINE == "NEWLINE"

\* sep.join(parts) for a one-character separator.
RECURSIVE Join(_, _)
Join(sep, parts) ==
    IF Len(parts) = 0 THEN <<>>
    ELSE IF Len(parts) = 1 THEN parts[1]
    ELSE parts[1] \o <<sep>> \o Join(sep, Tail(parts))

\* Solution.string_mask
string_mask(self, word_positions, found_char, remaining_char) ==
    LET m == array_mask(self, word_positions)
    IN IF m.kind = "raise" THEN m
       ELSE Return(Join(NEWLINE,
                [j \in 1..Len(m.value) |->
                    [i \in 1..Len(m.value[j]) |->
                        IF m.value[j][i] THEN found_char ELSE remaining_char]]))

(* --------------------------- the state machine ------------------------- *)

Self == [lines |-> lines, width |-> width, search_registers |-> search_registers]

NoCall == [op |-> "none"]

\* A SearchField has just been constructed from rows.
Constructed(rows) ==
    LET f == SearchField(rows)
    IN /\ lines = f.lines
       /\ width = f.width
       /\ search_registers = f.search_registers
       /\ call = NoCall
       /\ result = Return(NoFinds)
       /\ solution = None

GetSearchRegisters ==
    /\ search_registers' = _get_search_registers(Self)
    /\ call' = [op |-> "_get_search_registers"]
    /\ result' = Return(Value(_get_search_registers(Self)))
    /\ UNCHANGED <<lines, width, solution>>

Regularize(direction, line_i, find_i) ==
    /\ call' = [op |-> "_regularize_register_position", direction |-> direction,
                line_i |-> line_i, find_i |-> find_i]
    /\ result' = Return(_regularize_register_position(Self, direction, line_i, find_i))
    /\ UNCHANGED <<lines, width, search_registers, solution>>

\* A slip: building the families reverses the rows in place.
FindWordsReversingRows(words, not_found, multiple_finds, allowed_directions) ==
    LET done == find_words(Self, words, not_found, multiple_finds, allowed_directions)
    IN /\ call' = [op |-> "find_words", words |-> words, not_found |-> not_found,
                   multiple_finds |-> multiple_finds,
                   allowed_directions |-> allowed_directions,
                   warm |-> ~IsNone(search_registers)]
       /\ result' = done.outcome
       /\ search_registers' = done.search_registers
       /\ lines' = IF IsNone(search_registers) /\ multiple_finds = "first"
                   THEN reverse_lines(lines) ELSE lines
       /\ UNCHANGED <<width, solution>>

FindWords(words, not_found, multiple_finds, allowed_directions) ==
    LET done == find_words(Self, words, not_found, multiple_finds, allowed_directions)
    IN /\ call' = [op |-> "find_words", words |-> words, not_found |-> not_found,
                   multiple_finds |-> multiple_finds,
                   allowed_directions |-> allowed_directions,
                   warm |-> ~IsNone(search_registers)]
       /\ result' = done.outcome
       /\ search_registers' = done.search_registers
       /\ UNCHANGED <<lines, width, solution>>

\* solve: Solution(self, self.find_words(words, **kwargs)); an error of
\* find_words propagates and no Solution is made.
Solve(words, not_found, multiple_finds, allowed_directions) ==
    LET done == find_words(Self, words, not_found, multiple_finds, allowed_directions)
    IN /\ call' = [op |-> "solve", words |-> words, not_found |-> not_found,
                   multiple_finds |-> multiple_finds,
                   allowed_directions |-> allowed_directions,
                   warm |-> ~IsNone(search_registers)]
       /\ result' = done.outcome
       /\ search_registers' = done.search_registers
       /\ solution' = IF done.outcome.kind = "return" THEN Some(done.outcome.value)
                      ELSE solution
       /\ UNCHANGED <<lines, width>>

ArrayMask ==
    /\ ~IsNone(solution)
    /\ call' = [op |-> "array_mask"]
    /\ result' = array_mask(Self, Value(solution))
    /\ UNCHANGED <<lines, width, search_registers, solution>>

RemainingText ==
    /\ ~IsNone(solution)
    /\ call' = [op |-> "remaining_text"]
    /\ result' = remaining_text(Self, Value(solution))
    /\ UNCHANGED <<lines, width, search_registers, solution>>

StringMask(found_char, remaining_char) ==
    /\ ~IsNone(solution)
    /\ call' = [op |-> "string_mask", found_char |-> found_char,
                remaining_char |-> remaining_char]
    /\ result' = string_mask(Self, Value(solution), found_char, remaining_char)
    /\ UNCHANGED <<lines, width, search_registers, solution>>

\* The caller drops the returned value (the mapping, the error or the
\* Solution); the grid stays as the call left it.
Discard ==
    /\ call' = NoCall
    /\ result' = Return(NoFinds)
    /\ solution' = None
    /\ UNCHANGED <<lines, width, search_registers>>

(* ------------------------------ the inputs ----------------------------- *)

SeqsUpTo(S, n) == UNION {[1..k -> S] : k \in 0..n}

\* The (height, width) pairs of the grids with at most maxCells cells.
Shapes(maxCells) ==
    {hw \in (1..maxCells) \X (1..maxCells) : hw[1] * hw[2] <= maxCells}

\* Rows of equal length: no padding is needed.
RectRows(alphabet, maxCells) ==
    UNION {[1..hw[1] -> [1..hw[2] -> alphabet]] : hw \in Shapes(maxCells)}

\* Rows of any length up to the width, one of them as long as the width: the
\* shorter ones are padded by the constructor.
RaggedRows(alphabet, maxCells) ==
    UNION {{rows \in [1..hw[1] -> SeqsUpTo(alphabet, hw[2])] :
               \E k \in 1..hw[1] : Len(rows[k]) = hw[2]} : hw \in Shapes(maxCells)}

\* allowed_directions: None (all eight) or a list of at most n directions.
DirLists(n) == {None} \cup {Some(l) : l \in SeqsUpTo(Directions, n)}

\* allowed_directions: None or a list of one direction.
OneDir == {None} \cup {Some(<<d>>) : d \in Directions}

\* allowed_directions: None, the empty list or a list of one direction.
UpToOneDir == OneDir \cup {Some(<<>>)}

\* Lists of at most two words, duplicates included.
UpToTwo(W) == {<<>>} \cup {<<a>> : a \in W} \cup {<<a, b>> : a \in W, b \in W}

Policies == {"error", "keep", "ignore", "skip"}

MaskChars == {"#", "."}

\* Words of at most two letters.
ShortWords(alphabet) == {<<>>} \cup {<<a>> : a \in alphabet}
                            \cup {<<a, b>> : a \in alphabet, b \in alphabet}

Fresh == call = NoCall

(* --------------------------- the specifications ------------------------ *)

\* Any sequence of find_words and solve calls on one grid: between two calls
\* the caller drops the result, the grid keeps its cache.
Init == \E rows \in RectRows(Letters, MaxFewCells) : Constructed(rows)

Next ==
    \/ /\ call = NoCall
       /\ \E words \in UpToTwo(ShortWords(Letters)), allowed_directions \in OneDir :
             FindWords(words, "keep", "first", allowed_directions)
    \/ /\ call = NoCall
       /\ \E words \in UpToTwo(ShortWords(Letters)), not_found \in {"error", "ignore"},
             multiple_finds \in {"first", "all"} :
             FindWords(words, not_found, multiple_finds, None)
    \/ /\ call = NoCall
       /\ \E words \in UpToTwo(ShortWords(Letters)), not_found \in {"error", "keep"} :
             Solve(words, not_found, "first", None)
    \/ /\ call # NoCall
       /\ Discard

Spec == Init /\ [][Next]_vars

\* One find_words call on a fresh grid, under every policy.
InitPolicy == \E rows \in RectRows(Letters, MaxFewCells) : Constructed(rows)

NextPolicy ==
    /\ Fresh
    /\ \E words \in UpToTwo(ShortWords(Letters)), not_found \in Policies,
          allowed_directions \in UpToOneDir :
          FindWords(words, not_found, "first", allowed_directions)

SpecPolicy == InitPolicy /\ [][NextPolicy]_vars

\* One word searched on a fresh grid in a given list of directions.
InitFind == \E rows \in RectRows(Letters, MaxCells) : Constructed(rows)

NextFind ==
    /\ Fresh
    /\ \E word \in SeqsUpTo(Letters, MaxWordLen), allowed_directions \in DirLists(MaxDirs) :
          FindWords(<<word>>, "keep", "first", allowed_directions)

SpecFind == InitFind /\ [][NextFind]_vars

\* One word searched on a fresh grid in the default directions.  The grids are
\* over three letters and the words over two of them: the third letter fills
\* the cells a word must not read.
InitDefault == \E rows \in RectRows(Alphabet, MaxArea) : Constructed(rows)

NextDefault ==
    /\ Fresh
    /\ \E word \in ShortWords(Letters) :
          FindWords(<<word>>, "error", "first", None)

SpecDefault == InitDefault /\ [][NextDefault]_vars

\* The line families of a grid and the inverse mapping of one of their offsets.
InitRegisters == \E rows \in RaggedRows(Letters, MaxArea) : Constructed(rows)

NextRegisters ==
    \/ /\ Fresh
       /\ GetSearchRegisters
    \/ /\ call.op = "_get_search_registers"
       /\ \E direction \in Directions :
            \E line_i \in 0..(Len(Value(search_registers)[direction]) - 1) :
              \E find_i \in 0..(Len(At(Value(search_registers)[direction], line_i)) - 1) :
                 Regularize(direction, line_i, find_i)

SpecRegisters == InitRegisters /\ [][NextRegisters]_vars

\* A Solution made by solve on a fresh grid, then one of its derived views.
InitSolution == \E rows \in RectRows(Letters, MaxCells) : Constructed(rows)

NextSolution ==
    \/ /\ Fresh
       /\ \E words \in UpToTwo(ShortWords(Letters)),
             not_found \in {"error", "keep", "ignore"} :
             Solve(words, not_found, "first", None)
    \/ /\ call.op = "solve"
       /\ ArrayMask
    \/ /\ call.op = "solve"
       /\ RemainingText
    \/ /\ call.op = "solve"
       /\ \E found_char \in MaskChars, remaining_char \in MaskChars :
             StringMask(found_char, remaining_char)

SpecSolution == InitSolution /\ [][NextSolution]_vars

(* ------------------------------ the claims ----------------------------- *)

InGrid(r, c) == 0 <= r /\ r < Len(lines) /\ 0 <= c /\ c < width

CharAt(r, c) == lines[r + 1][c + 1]

GridCells == (0..(Len(lines) - 1)) \X (0..(width - 1))

RECURSIVE SumLen(_)
SumLen(ls) == IF Len(ls) = 0 THEN 0 ELSE Len(Head(ls)) + SumLen(Tail(ls))

\* C7: _regularize_register_position(d, k, o) of every offset o of every line
\* k of d's family is an in-grid cell holding character o of the line, the cell
\* of offset o+1 is one step of d's delta further, and no other (line, offset)
\* of the family maps to the same cell.
C7_RegularizeInvertsLines ==
    call.op = "_regularize_register_position" =>
        LET d == call.direction
            k == call.line_i
            o == call.find_i
            family == Value(search_registers)[d]
            line == At(family, k)
            pos == result.value
            delta == DIRECTION_DELTAS[d]
        IN /\ InGrid(pos[1], pos[2])
           /\ CharAt(pos[1], pos[2]) = At(line, o)
           /\ o + 1 < Len(line) =>
                 _regularize_register_position(Self, d, k, o + 1)
                     = <<pos[1] + delta[1], pos[2] + delta[2]>>
           /\ \A k2 \in 0..(Len(family) - 1) :
                 \A o2 \in 0..(Len(At(family, k2)) - 1) :
                    <<k2, o2>> # <<k, o>> =>
                        _regularize_register_position(Self, d, k2, o2) # pos

\* C7 happens: an offset past the first of a BOTTOMLEFT line of a non-square
\* grid has been mapped back.
C7_Witness ==
    /\ call.op = "_regularize_register_position"
    /\ call.direction = "BOTTOMLEFT"
    /\ call.find_i >= 1
    /\ Len(lines) = 3
    /\ width = 2

Diagonals == {"BOTTOMRIGHT", "TOPLEFT", "TOPRIGHT", "BOTTOMLEFT"}

\* The cells diagonal k of d's family runs over, in the order the grid is read
\* when the family is built (the reversed families read the same cells).
DiagonalCells(d, k, length) ==
    IF d \in {"BOTTOMRIGHT", "TOPLEFT"}
    THEN LET st == _bottomright_diagonal_start(Self, k)
         IN [i \in 1..length |-> <<st[1] + (i - 1), st[2] + (i - 1)>>]
    ELSE LET st == _topright_diagonal_start(Self, k)
         IN [i \in 1..length |-> <<st[1] - (i - 1), st[2] + (i - 1)>>]

\* C8: each diagonal family has width + height - 1 lines, none empty, the
\* first and the last of length 1; the lines read in-grid cells only, every
\* cell in exactly one line of the family; lengths sum to width * height; in
\* a single-row or single-column grid every diagonal line has length 1.
C8_DiagonalsCoverGrid ==
    (call.op = "_get_search_registers" /\ width >= 1) =>
        \A d \in Diagonals :
            LET family == Value(search_registers)[d]
                n == width + Len(lines) - 1
                cellsOf(k) == DiagonalCells(d, k, Len(At(family, k)))
            IN /\ Len(family) = n
               /\ \A k \in 0..(n - 1) :
                     /\ Len(At(family, k)) >= 1
                     /\ \A i \in 1..Len(At(family, k)) :
                           LET c == cellsOf(k)[i]
                               at == IF d \in {"BOTTOMRIGHT", "TOPRIGHT"} THEN i
                                     ELSE Len(At(family, k)) + 1 - i
                           IN /\ InGrid(c[1], c[2])
                              /\ At(family, k)[at] = CharAt(c[1], c[2])
               /\ Len(At(family, 0)) = 1
               /\ Len(At(family, n - 1)) = 1
               /\ \A c \in GridCells :
                     Cardinality({k \in 0..(n - 1) :
                         \E i \in 1..Len(At(family, k)) : cellsOf(k)[i] = c}) = 1
               /\ SumLen(family) = width * Len(lines)
               /\ (Len(lines) = 1 \/ width = 1) =>
                     \A k \in 0..(n - 1) : Len(At(family, k)) = 1

\* C8 happens: the families of a grid of two rows and three columns are built.
C8_Witness ==
    /\ call.op = "_get_search_registers"
    /\ Len(lines) = 2
    /\ width = 3

\* The word w reads in the grid from cell (r, c) in direction d.
ReadsAt(w, r, c, d) ==
    \A k \in 1..Len(w) :
        LET rr == r + (k - 1) * DIRECTION_DELTAS[d][1]
            cc == c + (k - 1) * DIRECTION_DELTAS[d][2]
        IN InGrid(rr, cc) /\ CharAt(rr, cc) = w[k]

\* The (row, column, direction) placements at which w reads in the grid.
Placements(w) ==
    {p \in GridCells \X Directions : ReadsAt(w, p[1][1], p[1][2], p[2])}

CalledWords == {call.words[k] : k \in 1..Len(call.words)}

Found(w) == w \in DOMAIN result.value /\ ~IsNone(result.value[w])

\* C1: every position find_words returns has an allowed direction, and the
\* cells from its start along that direction lie in the grid and spell the word.
C1_FindWordsSound ==
    (call.op = "find_words" /\ result.kind = "return") =>
        \A w \in DOMAIN result.value :
            ~IsNone(result.value[w]) =>
                LET p == Value(result.value[w])
                IN /\ \/ IsNone(call.allowed_directions) /\ p.direction \in Directions
                      \/ /\ ~IsNone(call.allowed_directions)
                         /\ \E k \in 1..Len(Value(call.allowed_directions)) :
                               Value(call.allowed_directions)[k] = p.direction
                   /\ ReadsAt(w, p.row, p.column, p.direction)

\* C1 happens: a two-letter word was found with TOPLEFT the only allowed direction.
C1_Witness ==
    /\ call.op = "find_words"
    /\ result.kind = "return"
    /\ call.allowed_directions = Some(<<"TOPLEFT">>)
    /\ \E w \in DOMAIN result.value :
          Len(w) = 2 /\ ~IsNone(result.value[w])

\* The order find_words scans the families in when no list is given.
DefaultScanOrder == <<"RIGHT", "LEFT", "BOTTOM", "TOP",
                      "BOTTOMRIGHT", "TOPLEFT", "TOPRIGHT", "BOTTOMLEFT">>

ScannedDirections ==
    IF IsNone(call.allowed_directions) THEN DefaultScanOrder
    ELSE Value(call.allowed_directions)

\* Line li of the di-th scanned direction.
ScannedLine(di, li) == At(Value(search_registers)[ScannedDirections[di]], li)

ScanSteps ==
    {s \in (1..Len(ScannedDirections)) \X (0..(Len(lines) + width)) :
        s[2] < Len(Value(search_registers)[ScannedDirections[s[1]]])}

OccursAt(w, line, o) ==
    o + Len(w) <= Len(line) /\ SubSeq(line, o + 1, o + Len(w)) = w

Offsets(w, line) == {o \in 0..Len(line) : OccursAt(w, line, o)}

Hits(w) == {s \in ScanSteps : Offsets(w, ScannedLine(s[1], s[2])) # {}}

Earlier(s, t) == s[1] < t[1] \/ (s[1] = t[1] /\ s[2] < t[2])

\* C9: a word is recorded at the first line, in scan order, that contains it,
\* at the leftmost offset of that line, whatever later lines and directions
\* hold; a word no scanned line contains is not recorded.
C9_FirstMatchWins ==
    (call.op = "find_words" /\ call.multiple_finds = "first" /\ call.not_found = "keep") =>
        \A w \in CalledWords :
            LET hits == Hits(w)
            IN IF hits = {} THEN ~Found(w)
               ELSE \A s \in hits :
                       (\A t \in hits : ~Earlier(t, s)) =>
                           LET offsets == Offsets(w, ScannedLine(s[1], s[2]))
                           IN \A o \in offsets :
                                 (\A o2 \in offsets : o <= o2) =>
                                     LET d == ScannedDirections[s[1]]
                                         rc == _regularize_register_position(Self, d, s[2], o)
                                     IN /\ Found(w)
                                        /\ result.value[w]
                                              = Some(WordPosition(rc[1], rc[2], d))

\* C9 happens: in one allowed direction the word is on two lines and twice in
\* the first of them.
C9_Witness ==
    /\ call.op = "find_words"
    /\ ~IsNone(call.allowed_directions)
    /\ Len(Value(call.allowed_directions)) = 1
    /\ \E w \in CalledWords :
          /\ Len(w) >= 1
          /\ Found(w)
          /\ Cardinality(Hits(w)) >= 2
          /\ \E s \in Hits(w) :
                /\ \A t \in Hits(w) : ~Earlier(t, s)
                /\ Cardinality(Offsets(w, ScannedLine(s[1], s[2]))) >= 2

\* C2: a non-empty word that reads at exactly one (cell, direction) placement
\* is returned at exactly that placement when all eight directions are searched.
C2_RoundTrip ==
    (call.op = "find_words" /\ IsNone(call.allowed_directions)) =>
        \A w \in CalledWords :
            LET placed == Placements(w)
            IN (Len(w) >= 1 /\ Cardinality(placed) = 1) =>
                   \A p \in placed :
                       /\ result.kind = "return"
                       /\ Found(w)
                       /\ result.value[w] = Some(WordPosition(p[1][1], p[1][2], p[2]))

\* C2 happens: in a grid of two rows and three columns the word reads at one
\* placement only, towards BOTTOMLEFT.
C2_Witness ==
    /\ call.op = "find_words"
    /\ IsNone(call.allowed_directions)
    /\ Len(lines) = 2
    /\ width = 3
    /\ \E w \in CalledWords :
          /\ Len(w) = 2
          /\ Cardinality(Placements(w)) = 1
          /\ \E p \in Placements(w) : p[2] = "BOTTOMLEFT"
          /\ Found(w)

\* The first direction of the list order in which w reads somewhere.
FirstReading(placed, order) ==
    LET ks == {k \in 1..Len(order) : \E p \in placed : p[2] = order[k]}
    IN order[CHOOSE k \in ks : \A j \in ks : k <= j]

\* C3 as claimed: with the default directions a non-empty word that reads in
\* the grid gets the first direction, in the order RIGHT, BOTTOM, LEFT, TOP,
\* BOTTOMRIGHT, BOTTOMLEFT, TOPRIGHT, TOPLEFT, in which it reads.
C3_EnumOrder ==
    (call.op = "find_words" /\ IsNone(call.allowed_directions)) =>
        \A w \in CalledWords :
            LET placed == Placements(w)
            IN (Len(w) >= 1 /\ placed # {}) =>
                   /\ Found(w)
                   /\ Value(result.value[w]).direction
                         = FirstReading(placed, <<"RIGHT", "BOTTOM", "LEFT", "TOP",
                                         "BOTTOMRIGHT", "BOTTOMLEFT", "TOPRIGHT", "TOPLEFT">>)

\* C3 amended: the order is RIGHT, LEFT, BOTTOM, TOP, BOTTOMRIGHT, TOPLEFT,
\* TOPRIGHT, BOTTOMLEFT, the order in which the families are stored.
C3_StoredOrder ==
    (call.op = "find_words" /\ IsNone(call.allowed_directions)) =>
        \A w \in CalledWords :
            LET placed == Placements(w)
            IN (Len(w) >= 1 /\ placed # {}) =>
                   /\ Found(w)
                   /\ Value(result.value[w]).direction
                         = FirstReading(placed, DefaultScanOrder)

\* C3 happens: the word reads downward and leftward but not rightward.
C3_Witness ==
    /\ call.op = "find_words"
    /\ IsNone(call.allowed_directions)
    /\ \E w \in CalledWords :
          /\ Len(w) = 2
          /\ Found(w)
          /\ \E r \in 0..(Len(lines) - 1), c \in 0..(width - 1) : ReadsAt(w, r, c, "BOTTOM")
          /\ \E r \in 0..(Len(lines) - 1), c \in 0..(width - 1) : ReadsAt(w, r, c, "LEFT")
          /\ ~\E r \in 0..(Len(lines) - 1), c \in 0..(width - 1) : ReadsAt(w, r, c, "RIGHT")

\* The directions a call allows.
AllowedDirections ==
    IF IsNone(call.allowed_directions) THEN Directions
    ELSE {Value(call.allowed_directions)[k] : k \in 1..Len(Value(call.allowed_directions))}

\* U: the distinct words of the call that read nowhere in an allowed direction.
Unmatched ==
    {w \in CalledWords :
        ~\E rc \in GridCells, d \in AllowedDirections : ReadsAt(w, rc[1], rc[2], d)}

\* C4: under "error" the call fails iff U is not empty and the error names the
\* words of U, the full mapping being returned otherwise; under "keep" the
\* keys are the distinct words and exactly those of U are absent; under
\* "ignore" the keys are the distinct words outside U.
C4_NotFoundPolicy ==
    (call.op = "find_words" /\ call.multiple_finds = "first") =>
        LET U == Unmatched
        IN /\ call.not_found = "error" =>
                 /\ result.kind = "raise" <=> U # {}
                 /\ result.kind = "raise" =>
                       /\ result.exception = "ValueError"
                       /\ result.message = "could not find words"
                       /\ result.args = U
                 /\ result.kind = "return" =>
                       /\ DOMAIN result.value = CalledWords
                       /\ \A w \in CalledWords : ~IsNone(result.value[w])
           /\ call.not_found = "keep" =>
                 /\ result.kind = "return"
                 /\ DOMAIN result.value = CalledWords
                 /\ \A w \in CalledWords : IsNone(result.value[w]) <=> w \in U
           /\ call.not_found = "ignore" =>
                 /\ result.kind = "return"
                 /\ DOMAIN result.value = CalledWords \ U
                 /\ \A w \in CalledWords \ U : ~IsNone(result.value[w])

\* C4 happens: under "keep" in one allowed direction, one of two words is
\* found and the other is not.
C4_Witness ==
    /\ call.op = "find_words"
    /\ call.not_found = "keep"
    /\ ~IsNone(call.allowed_directions)
    /\ Cardinality(CalledWords) = 2
    /\ Cardinality(Unmatched) = 1
    /\ \E w \in CalledWords : Len(w) = 2 /\ Found(w)

\* C5 as claimed: a call whose not_found is none of error, keep, ignore fails
\* with the invalid-policy error, whether or not all words are found.
C5_InvalidPolicyRejected ==
    (call.op = "find_words" /\ call.multiple_finds = "first"
        /\ call.not_found \notin {"error", "keep", "ignore"}) =>
        /\ result.kind = "raise"
        /\ result.message = "invalid not_found argument value"

\* What the call of the state returns on a freshly constructed equal grid.
OnFreshGrid(words, not_found, allowed_directions) ==
    find_words(SearchField(lines), words, not_found, call.multiple_finds,
               allowed_directions).outcome

\* C10: no find_words or solve call, failed ones included, changes the rows
\* or the width; the cached families, once there, never change; every call on
\* a grid that has served calls before returns what it returns on a fresh
\* equal grid, and solve wraps that mapping; the position of a word searched
\* with other words is the one it gets when searched alone.
C10_GridImmutableCacheStable ==
    /\ [][lines' = lines /\ width' = width]_vars
    /\ [][~IsNone(search_registers) => search_registers' = search_registers]_vars
    /\ []((call.op \in {"find_words", "solve"} /\ call.warm) =>
            result = OnFreshGrid(call.words, call.not_found, call.allowed_directions))
    /\ []((call.op = "solve" /\ result.kind = "return") => solution = Some(result.value))
    /\ []((call.op \in {"find_words", "solve"} /\ result.kind = "return"
                /\ Cardinality(DOMAIN result.value) > 1) =>
            \A w \in DOMAIN result.value :
                result.value[w]
                    = find_words(Self, <<w>>, "keep", "first",
                                 call.allowed_directions).outcome.value[w])

\* C10 happens: a grid whose families are already cached serves a call with a
\* duplicated word and a second word, and finds them.
C10_Witness ==
    /\ call.op = "find_words"
    /\ call.warm
    /\ result.kind = "return"
    /\ Len(call.words) = 2
    /\ call.words[1] # call.words[2]
    /\ Len(call.words[1]) = 2
    /\ Found(call.words[1])
    /\ Found(call.words[2])

\* The cells of the words of the Solution that have a position.
Covered ==
    {c \in (-1..Len(lines)) \X (-1..width) :
        \E w \in DOMAIN Value(solution) :
            /\ ~IsNone(Value(solution)[w])
            /\ \E k \in 0..(Len(w) - 1) :
                  LET p == Value(Value(solution)[w])
                  IN c = <<p.row + k * DIRECTION_DELTAS[p.direction][1],
                           p.column + k * DIRECTION_DELTAS[p.direction][2]>>}

RowMajorUpTo(c) == {c2 \in GridCells \ Covered :
                       c2[1] < c[1] \/ (c2[1] = c[1] /\ c2[2] <= c[2])}

\* C6: array_mask has height rows of width booleans, true exactly at the cells
\* of the words that have a position; remaining_text is the row-major
\* concatenation of the characters at the false cells; string_mask is height
\* rows of width characters joined by newlines, found_char at the true cells
\* and remaining_char at the others.
C6_MaskAndRemainingText ==
    /\ call.op = "array_mask" =>
          /\ result.kind = "return"
          /\ Len(result.value) = Len(lines)
          /\ \A r \in 0..(Len(lines) - 1) :
                /\ Len(At(result.value, r)) = width
                /\ \A c \in 0..(width - 1) :
                      At(At(result.value, r), c) <=> <<r, c>> \in Covered
          /\ Covered \subseteq GridCells
    /\ call.op = "remaining_text" =>
          /\ result.kind = "return"
          /\ Len(result.value) = Cardinality(GridCells \ Covered)
          /\ Len(result.value) + Cardinality(Covered \cap GridCells)
                = width * Len(lines)
          /\ \A c \in GridCells \ Covered :
                result.value[Cardinality(RowMajorUpTo(c))] = CharAt(c[1], c[2])
    /\ call.op = "string_mask" =>
          /\ result.kind = "return"
          /\ Len(result.value) = Len(lines) * width + (Len(lines) - 1)
          /\ \A r \in 0..(Len(lines) - 1) :
                /\ \A c \in 0..(width - 1) :
                      At(result.value, r * (width + 1) + c)
                          = IF <<r, c>> \in Covered THEN call.found_char
                            ELSE call.remaining_char
                /\ r < Len(lines) - 1 =>
                      At(result.value, r * (width + 1) + width) = NEWLINE

\* C6 happens: the mask string of a Solution with two overlapping two-letter
\* words that leave a cell free, in two different characters.
C6_Witness ==
    /\ call.op = "string_mask"
    /\ call.found_char # call.remaining_char
    /\ GridCells \ Covered # {}
    /\ \E w1 \in DOMAIN Value(solution), w2 \in DOMAIN Value(solution) :
          /\ w1 # w2
          /\ Len(w1) = 2
          /\ Len(w2) = 2
          /\ ~IsNone(Value(solution)[w1])
          /\ ~IsNone(Value(solution)[w2])
          /\ Cardinality(Covered) = 3

====
